---- MODULE Spec2Model ----
(***************************************************************************)
(* cargo-dockerize: one run of `cargo dockerize` (src/main.rs).            *)
(*                                                                         *)
(* A String is a sequence of one-character strings, a PathBuf a sequence   *)
(* of components (each a String, the root being <<>>), an Option<T> a      *)
(* sequence of length 0 (None) or 1 (Some).  The file system and the CLI   *)
(* arguments are fixed when the run starts; the exit status and output of  *)
(* every external command are chosen when the command is invoked.          *)
(***************************************************************************)
EXTENDS Integers, Sequences, FiniteSets, TLC

VARIABLES
    pc,                 \* position of main(): the next step to execute
    args,               \* struct Dockerize, as parsed by clap
    fs,                 \* the file system and working directory of the run
    current_dir,        \* find_project_root: the candidate directory
    project_root,       \* Option<PathBuf>: the result of find_project_root
    cargo_toml_content, \* get_cargo_metadata: the text read from Cargo.toml
    metadata,           \* (name, version) read from the manifest
    image_name,
    image_tag,
    image_full,
    git_revision,
    docker_build_args,
    current_time,
    archive_name,
    invoked,            \* the external commands run so far, in order
    stdout,             \* the lines printed so far
    error,              \* Option: the anyhow error main returned
    exit_code,          \* Option: the exit status of the process
    cli_tags            \* the values given to --tags, before clap splits them

vars == <<pc, args, fs, current_dir, project_root, cargo_toml_content, metadata,
          image_name, image_tag, image_full, git_revision, docker_build_args,
          current_time, archive_name, invoked, stdout, error, exit_code,
          cli_tags>>

---------------------------------------------------------------------------
(* Bounds of the model.                                                    *)

MaxDepth == 2   \* the working directory is at most this deep below /
MaxLines == 3   \* lines of a generated manifest
MaxTags  == 2   \* entries of --tags

---------------------------------------------------------------------------
(* Strings.                                                                *)

None == <<>>
Some(v) == <<v>>

Min(S) == CHOOSE m \in S : \A n \in S : m <= n
Max(S) == CHOOSE m \in S : \A n \in S : m >= n

IsWhitespace(c) == c \in {" ", "\t", "\n", "\r"}
IsQuote(c) == c = "\""

\* str::trim
Trim(s) ==
    LET keep == {i \in 1..Len(s) : ~IsWhitespace(s[i])}
    IN  IF keep = {} THEN <<>> ELSE SubSeq(s, Min(keep), Max(keep))

\* str::trim_matches('"')
TrimQuotes(s) ==
    LET keep == {i \in 1..Len(s) : ~IsQuote(s[i])}
    IN  IF keep = {} THEN <<>> ELSE SubSeq(s, Min(keep), Max(keep))

\* str::starts_with
StartsWith(s, p) == Len(s) >= Len(p) /\ SubSeq(s, 1, Len(p)) = p

\* line.split('=').nth(1): the piece between the first and the second '='
SplitEqNth1(line) ==
    LET eqs == {i \in 1..Len(line) : line[i] = "="}
    IN  IF eqs = {} THEN None
        ELSE LET first == Min(eqs)
                 rest  == eqs \ {first}
                 last  == IF rest = {} THEN Len(line) ELSE Min(rest) - 1
             IN  Some(SubSeq(line, first + 1, last))

\* str::lines: the pieces between line feeds, without a final empty piece,
\* each without its trailing carriage return
Lines(text) ==
    LET nls    == {i \in 1..Len(text) : text[i] = "\n"}
        ends   == nls \cup (IF Len(text) > 0 /\ text[Len(text)] # "\n"
                            THEN {Len(text) + 1} ELSE {})
        Start(e) == IF \E n \in nls : n < e
                    THEN Max({n \in nls : n < e}) + 1 ELSE 1
        Piece(e) == LET raw == SubSeq(text, Start(e), e - 1)
                    IN  IF Len(raw) > 0 /\ raw[Len(raw)] = "\r"
                        THEN SubSeq(raw, 1, Len(raw) - 1) ELSE raw
        RECURSIVE Pieces(_, _)
        Pieces(S, acc) == IF S = {} THEN acc
                          ELSE Pieces(S \ {Min(S)}, Append(acc, Piece(Min(S))))
    IN  Pieces(ends, <<>>)

\* lines.find(|line| line.trim().starts_with(key)): the first such line
FindLine(lines, key) ==
    LET hits == {i \in 1..Len(lines) : StartsWith(Trim(lines[i]), key)}
    IN  IF hits = {} THEN None ELSE Some(lines[Min(hits)])

\* str::split(' ') without the empty pieces: the words of a shell command
Words(s) ==
    LET RECURSIVE Go(_, _, _)
        Go(i, word, acc) ==
            IF i > Len(s) THEN (IF word = <<>> THEN acc ELSE Append(acc, word))
            ELSE IF s[i] = " "
                 THEN Go(i + 1, <<>>, IF word = <<>> THEN acc ELSE Append(acc, word))
                 ELSE Go(i + 1, Append(word, s[i]), acc)
    IN  Go(1, <<>>, <<>>)

\* the concatenation of the lines of a text, each ended by a line feed
RECURSIVE Unlines(_)
Unlines(ls) == IF ls = <<>> THEN <<>> ELSE Head(ls) \o <<"\n">> \o Unlines(Tail(ls))

\* all sequences over S of length at most n
SeqUpTo(S, n) == UNION {[1..k -> S] : k \in 0..n}

---------------------------------------------------------------------------
(* Literals of the program.                                                *)

CargoToml  == <<"C", "a", "r", "g", "o", ".", "t", "o", "m", "l">>
NameKey    == <<"n", "a", "m", "e", " ", "=">>
VersionKey == <<"v", "e", "r", "s", "i", "o", "n", " ", "=">>
Unknown    == <<"u", "n", "k", "n", "o", "w", "n">>
DefaultDockerfile == <<"D", "o", "c", "k", "e", "r", "f", "i", "l", "e">>
TgzSuffix  == <<".", "t", "g", "z">>
DockerSave == <<"d", "o", "c", "k", "e", "r", " ", "s", "a", "v", "e", " ">>
GzipTo     == <<" ", "|", " ", "g", "z", "i", "p", " ", ">", " ">>
FlagT      == <<"-", "t">>
FlagF      == <<"-", "f">>
FlagLabel  == <<"-", "-", "l", "a", "b", "e", "l">>
Build      == <<"b", "u", "i", "l", "d">>
Release    == <<"-", "-", "r", "e", "l", "e", "a", "s", "e">>
RevParse   == <<"r", "e", "v", "-", "p", "a", "r", "s", "e">>
HEAD       == <<"H", "E", "A", "D">>
FlagC      == <<"-", "c">>
Dot        == <<".">>

OciPrefix  == <<"o", "r", "g", ".", "o", "p", "e", "n", "c", "o", "n", "t", "a",
                "i", "n", "e", "r", "s", ".", "i", "m", "a", "g", "e", ".">>
LblCreated     == OciPrefix \o <<"c", "r", "e", "a", "t", "e", "d">>
LblVersion     == OciPrefix \o <<"v", "e", "r", "s", "i", "o", "n">>
LblRevision    == OciPrefix \o <<"r", "e", "v", "i", "s", "i", "o", "n">>
LblTitle       == OciPrefix \o <<"t", "i", "t", "l", "e">>
LblDescription == OciPrefix \o <<"d", "e", "s", "c", "r", "i", "p", "t", "i", "o", "n">>
LblAuthors     == OciPrefix \o <<"a", "u", "t", "h", "o", "r", "s">>
LblUrl         == OciPrefix \o <<"u", "r", "l">>
LblSource      == OciPrefix \o <<"s", "o", "u", "r", "c", "e">>
LblVendor      == OciPrefix \o <<"v", "e", "n", "d", "o", "r">>
LblLicenses    == OciPrefix \o <<"l", "i", "c", "e", "n", "s", "e", "s">>
LblApplicationName == <<"a", "p", "p", "l", "i", "c", "a", "t", "i", "o", "n", "_",
                        "n", "a", "m", "e">>

\* the messages of the errors main returns
ErrNoCargoToml   == "Could not find Cargo.toml in any parent directory"
ErrReadCargoToml == "Failed to read Cargo.toml"
ErrNoName        == "Could not find package name in Cargo.toml"
ErrNoVersion     == "Could not find package version in Cargo.toml"
ErrNameFormat    == "Invalid name format in Cargo.toml"
ErrVersionFormat == "Invalid version format in Cargo.toml"
ErrNoDockerfile  == "Dockerfile not found at: {}"
ErrCargoSpawn    == "Failed to execute cargo build"
ErrCargoBuild    == "Cargo build failed"
ErrDockerSpawn   == "Failed to execute docker build"
ErrDockerBuild   == "Docker build failed"
ErrExportSpawn   == "Failed to export Docker image"
ErrExport        == "Docker export failed"
ErrGitSpawn      == "Failed to execute git command"
ErrGitUtf8       == "Invalid UTF-8 in git output"
ErrGit           == "Git command failed"

\* the lines main prints
MsgProjectRoot == "Project root: {}"
MsgBuilding    == "Building Rust project..."
MsgImage       == "Building Docker image: {}..."
MsgExporting   == "Exporting Docker image to: {}..."
MsgExported    == "Docker image exported successfully to: {}"
MsgCompleted   == "Dockerize completed successfully!"

---------------------------------------------------------------------------
(* Results and paths.                                                      *)

Ok(v)  == [ok |-> TRUE,  val |-> v,    err |-> ""]
Err(e) == [ok |-> FALSE, val |-> <<>>, err |-> e]

\* Path::join of a relative name
Join(path, name) == Append(path, name)

\* a pop that refuses to go up to the root
Pop_below_root(path) ==
    IF Len(path) <= 1 THEN [popped |-> FALSE, path |-> path]
    ELSE [popped |-> TRUE, path |-> SubSeq(path, 1, Len(path) - 1)]

\* PathBuf::pop: drops the last component; false (and no change) at the root
Pop(path) ==
    IF path = <<>> THEN [popped |-> FALSE, path |-> path]
    ELSE [popped |-> TRUE, path |-> SubSeq(path, 1, Len(path) - 1)]

\* Path::exists
Exists(f, path) == path \in f.files

\* fs::read_to_string: None when the file cannot be read as text
ReadToString(f, path) ==
    IF path \in DOMAIN f.text THEN f.text[path] ELSE None

---------------------------------------------------------------------------
(* The functions of src/main.rs.                                           *)

\* add_label: args.push("--label"); args.push(format!("{}={}", key, value))
add_label(a, key, value) == a \o <<FlagLabel, key \o <<"=">> \o value>>

\* get_cargo_metadata, given what fs::read_to_string returned
get_cargo_metadata(read) ==
    IF read = None THEN Err(ErrReadCargoToml)
    ELSE
    LET content      == read[1]
        name_line    == FindLine(Lines(content), NameKey)
        version_line == FindLine(Lines(content), VersionKey)
    IN  IF name_line = None THEN Err(ErrNoName)
        ELSE IF version_line = None THEN Err(ErrNoVersion)
        ELSE IF SplitEqNth1(name_line[1]) = None THEN Err(ErrNameFormat)
        ELSE IF SplitEqNth1(version_line[1]) = None THEN Err(ErrVersionFormat)
        ELSE Ok(<<TrimQuotes(Trim(SplitEqNth1(name_line[1])[1])),
                  TrimQuotes(Trim(SplitEqNth1(version_line[1])[1]))>>)

\* get_git_revision, given how `git rev-parse HEAD` ended: out.spawned (the
\* command could be run), out.code, out.utf8 and out.out (what it wrote)
get_git_revision(out) ==
    IF ~out.spawned THEN Err(ErrGitSpawn)
    ELSE IF out.code = 0
         THEN IF out.utf8 THEN Ok(Trim(out.out)) ELSE Err(ErrGitUtf8)
         ELSE Err(ErrGit)

\* a failed lookup that yields an empty revision
unwrap_or_empty(result) == IF result.ok THEN result.val ELSE <<>>

\* Result::unwrap_or_else(|_| String::from("unknown"))
unwrap_or_unknown(result) == IF result.ok THEN result.val ELSE Unknown

\* Option::unwrap_or_else(|| default)
unwrap_or(opt, default) == IF opt = None THEN default ELSE opt[1]

\* format!("{}:{}", name, tag)
ImageRef(name, tag) == name \o <<":">> \o tag

\* an archive named after the image reference
ArchiveName_from_ref(name, tag) == name \o <<":">> \o tag \o TgzSuffix

\* format!("{}-{}.tgz", image_name, image_tag)
ArchiveName(name, tag) == name \o <<"-">> \o tag \o TgzSuffix

\* format!("docker save {} | gzip > {}", image_full, archive_name)
ExportCommand(full, archive) == DockerSave \o full \o GzipTo \o archive

\* the "-t name:tag" pairs of the additional tags, in the order given
RECURSIVE ExtraTags(_, _)
ExtraTags(name, tags) ==
    IF tags = <<>> THEN <<>>
    ELSE <<FlagT, ImageRef(name, Head(tags))>> \o ExtraTags(name, Tail(tags))

\* an omitted field that still gets a label, with an empty value
add_optional_label_always(a, key, opt) ==
    add_label(a, key, IF opt = None THEN <<>> ELSE opt[1])

\* if let Some(v) = opt { add_label(args, key, v) }
add_optional_label(a, key, opt) ==
    IF opt = None THEN a ELSE add_label(a, key, opt[1])

\* the title label: the override if given, else the image name
add_title_label(a, title, name) ==
    add_label(a, LblTitle, IF title # None THEN title[1] ELSE name)

\* the three labels every build carries
add_standard_labels(a, now, tag, revision) ==
    add_label(add_label(add_label(a, LblCreated, now), LblVersion, tag),
              LblRevision, revision)

\* the labels given on the command line
add_optional_labels(a, g) ==
    LET a1 == add_optional_label(a,  LblDescription, g.description)
        a2 == add_optional_label(a1, LblAuthors, g.authors)
        a3 == add_optional_label(a2, LblUrl, g.url)
        a4 == add_optional_label(a3, LblSource, g.source)
        a5 == add_optional_label(a4, LblVendor, g.vendor)
        a6 == add_optional_label(a5, LblLicenses, g.licenses)
    IN  add_optional_label(a6, LblApplicationName, g.application_name)

\* docker_build_args as main assembles it
DockerBuildArgs(g, name, tag, full, revision, now) ==
    LET base   == <<Build, FlagT, full, FlagF, g.dockerfile>>
        tagged == base \o ExtraTags(name, g.tags)
        std    == add_standard_labels(tagged, now, tag, revision)
        titled == add_title_label(std, g.title, name)
    IN  add_optional_labels(titled, g) \o <<Dot>>

\* a build whose exit status is never looked at
Success_unchecked(st) == TRUE

\* ExitStatus::success
Success(st) == st.code = 0

\* the exit status of `sh -c "a | b > file"`: that of the last command of the
\* pipeline (no pipefail)
ShStatus(pipeline) == pipeline[Len(pipeline)]

\* #[arg(long, value_delimiter = ',')]: one value of --tags, split at commas
SplitCommas(s) ==
    LET RECURSIVE Go(_, _, _)
        Go(i, piece, acc) ==
            IF i > Len(s) THEN Append(acc, piece)
            ELSE IF s[i] = ","
                 THEN Go(i + 1, <<>>, Append(acc, piece))
                 ELSE Go(i + 1, Append(piece, s[i]), acc)
    IN  Go(1, <<>>, <<>>)

\* tags: Vec<String>: the values of every --tags occurrence, in order
RECURSIVE ParseTags(_)
ParseTags(values) ==
    IF values = <<>> THEN <<>>
    ELSE SplitCommas(Head(values)) \o ParseTags(Tail(values))

---------------------------------------------------------------------------
(* The steps of main.                                                      *)

\* a failing step that is run again instead of ending the run
Abort_retry(msg) ==
    /\ pc' = pc
    /\ UNCHANGED <<error, exit_code>>

\* an Err returned from main: the error is printed and the process exits 1
Abort(msg) ==
    /\ pc' = "aborted"
    /\ error' = Some(msg)
    /\ exit_code' = Some(1)

\* an external command that main has tried to start: `spawned` tells whether
\* it could be run; `exited` and the fields after it are set when it has ended
Invocation(program, argv, spawned) ==
    [program |-> program, argv |-> argv, spawned |-> spawned, exited |-> FALSE,
     code |-> -1, utf8 |-> TRUE, out |-> <<>>, pipeline |-> <<>>]

\* the invocation, ended as st tells
Exited(entry, st) ==
    [entry EXCEPT !.exited = TRUE, !.code = st.code, !.utf8 = st.utf8,
                  !.out = st.out, !.pipeline = st.pipeline]

\* the command main is waiting for
Running == invoked[Len(invoked)]

\* the log with the running command ended as st tells
Reaped(st) == [invoked EXCEPT ![Len(invoked)] = Exited(@, st)]

\* how a build can end: its exit status
Statuses ==
    {[code |-> c, utf8 |-> TRUE, out |-> <<>>, pipeline |-> <<>>] : c \in {0, 1}}

\* how `git rev-parse HEAD` can end, with what it wrote to its standard output
GitOutputs ==
    {<<"a", "b", "c", "0", "\n">>, <<" ", "f", "0", "0", "\r", "\n">>}

GitOutcomes ==
    {[code |-> 1, utf8 |-> TRUE, out |-> <<>>, pipeline |-> <<>>],
     [code |-> 0, utf8 |-> FALSE, out |-> <<>>, pipeline |-> <<>>]}
    \cup {[code |-> 0, utf8 |-> TRUE, out |-> o, pipeline |-> <<>>] : o \in GitOutputs}

\* how the export shell can end: the exit statuses of `docker save` and of
\* `gzip > archive` (1 when the archive cannot be created)
ExportOutcomes ==
    {o \in {[code |-> ShStatus(<<s, g>>), utf8 |-> TRUE, out |-> <<>>,
             pipeline |-> <<s, g>>, created |-> c] :
                s \in {0, 1}, g \in {0, 1}, c \in BOOLEAN} :
        o.created \/ o.pipeline[2] = 1}

\* Utc::now().format("%Y-%m-%dT%H:%M:%SZ")
Timestamps ==
    {<<"2", "0", "2", "6", "-", "0", "1", "-", "0", "1", "T", "0", "0", ":", "0",
       "0", ":", "0", "0", "Z">>,
     <<"2", "0", "2", "6", "-", "1", "1", "-", "0", "5", "T", "2", "3", ":", "5",
       "9", ":", "5", "9", "Z">>}

\* main, line 74, and find_project_root up to its loop
Start ==
    /\ pc = "main"
    /\ IF fs.cwd = None
       THEN /\ Abort("Failed to get current directory")
            /\ UNCHANGED current_dir
       ELSE /\ current_dir' = fs.cwd[1]
            /\ pc' = "find_project_root"
            /\ UNCHANGED <<error, exit_code>>
    /\ UNCHANGED <<args, fs, project_root, cargo_toml_content, metadata, image_name,
                   image_tag, image_full, git_revision, docker_build_args,
                   current_time, archive_name, invoked, stdout, cli_tags>>

\* one iteration of the loop of find_project_root
FindProjectRoot ==
    /\ pc = "find_project_root"
    /\ IF Exists(fs, Join(current_dir, CargoToml))
       THEN /\ project_root' = Some(current_dir)
            /\ stdout' = Append(stdout, MsgProjectRoot)
            /\ pc' = "get_cargo_metadata"
            /\ UNCHANGED <<current_dir, error, exit_code>>
       ELSE /\ current_dir' = Pop(current_dir).path
            /\ IF ~Pop(current_dir).popped
               THEN /\ Abort(ErrNoCargoToml)
                    /\ UNCHANGED <<project_root, stdout>>
               ELSE UNCHANGED <<pc, project_root, stdout, error, exit_code>>
    /\ UNCHANGED <<args, fs, cargo_toml_content, metadata, image_name, image_tag,
                   image_full, git_revision, docker_build_args, current_time,
                   archive_name, invoked, cli_tags>>

\* main, lines 81-86
GetCargoMetadata ==
    /\ pc = "get_cargo_metadata"
    /\ LET read == ReadToString(fs, Join(project_root[1], CargoToml))
           m    == get_cargo_metadata(read)
       IN  /\ cargo_toml_content' = read
           /\ IF m.ok
              THEN /\ metadata' = m.val
                   /\ image_name' = unwrap_or(args.name, m.val[1])
                   /\ image_tag' = unwrap_or(args.tag, m.val[2])
                   /\ image_full' = ImageRef(unwrap_or(args.name, m.val[1]),
                                             unwrap_or(args.tag, m.val[2]))
                   /\ pc' = "get_git_revision"
                   /\ UNCHANGED <<error, exit_code>>
              ELSE /\ Abort(m.err)
                   /\ UNCHANGED <<metadata, image_name, image_tag, image_full>>
    /\ UNCHANGED <<args, fs, current_dir, project_root, git_revision,
                   docker_build_args, current_time, archive_name, invoked, stdout,
                   cli_tags>>

\* main, line 89: get_git_revision starts `git rev-parse HEAD`
GetGitRevision ==
    /\ pc = "get_git_revision"
    /\ \E spawned \in BOOLEAN :
         LET entry == Invocation("git", <<RevParse, HEAD>>, spawned)
         IN  /\ invoked' = Append(invoked, entry)
             /\ IF ~spawned
                THEN /\ git_revision' = unwrap_or_unknown(get_git_revision(entry))
                     /\ pc' = "verify_dockerfile"
                ELSE /\ pc' = "get_git_revision_wait"
                     /\ UNCHANGED git_revision
    /\ UNCHANGED <<args, fs, current_dir, project_root, cargo_toml_content, metadata,
                   image_name, image_tag, image_full, docker_build_args,
                   current_time, archive_name, stdout, error, exit_code, cli_tags>>

\* main, line 89: git has ended, get_git_revision returns
GitExit ==
    /\ pc = "get_git_revision_wait"
    /\ \E out \in GitOutcomes :
         /\ invoked' = Reaped(out)
         /\ git_revision' = unwrap_or_unknown(get_git_revision(Exited(Running, out)))
    /\ pc' = "verify_dockerfile"
    /\ UNCHANGED <<args, fs, current_dir, project_root, cargo_toml_content, metadata,
                   image_name, image_tag, image_full, docker_build_args,
                   current_time, archive_name, stdout, error, exit_code, cli_tags>>

\* main without the check of lines 92-95
VerifyDockerfile_skipped ==
    /\ pc = "verify_dockerfile"
    /\ pc' = "cargo_build"
    /\ UNCHANGED <<args, fs, current_dir, project_root, cargo_toml_content, metadata,
                   image_name, image_tag, image_full, git_revision,
                   docker_build_args, current_time, archive_name, invoked, stdout,
                   error, exit_code, cli_tags>>

\* main, lines 92-95
VerifyDockerfile ==
    /\ pc = "verify_dockerfile"
    /\ IF ~Exists(fs, Join(project_root[1], args.dockerfile))
       THEN Abort(ErrNoDockerfile)
       ELSE /\ pc' = "cargo_build"
            /\ UNCHANGED <<error, exit_code>>
    /\ UNCHANGED <<args, fs, current_dir, project_root, cargo_toml_content, metadata,
                   image_name, image_tag, image_full, git_revision,
                   docker_build_args, current_time, archive_name, invoked, stdout,
                   cli_tags>>

\* main, lines 98-103: `cargo build --release` is started
CargoBuild ==
    /\ pc = "cargo_build"
    /\ stdout' = Append(stdout, MsgBuilding)
    /\ \E spawned \in BOOLEAN :
         /\ invoked' = Append(invoked, Invocation("cargo", <<Build, Release>>, spawned))
         /\ IF ~spawned THEN Abort(ErrCargoSpawn)
            ELSE /\ pc' = "cargo_build_wait"
                 /\ UNCHANGED <<error, exit_code>>
    /\ UNCHANGED <<args, fs, current_dir, project_root, cargo_toml_content, metadata,
                   image_name, image_tag, image_full, git_revision,
                   docker_build_args, current_time, archive_name, cli_tags>>

\* main, lines 99-107: cargo has ended
CargoExit ==
    /\ pc = "cargo_build_wait"
    /\ \E build_status \in Statuses :
         /\ invoked' = Reaped(build_status)
         /\ IF ~Success(build_status) THEN Abort(ErrCargoBuild)
            ELSE /\ pc' = "docker_build"
                 /\ UNCHANGED <<error, exit_code>>
    /\ UNCHANGED <<args, fs, current_dir, project_root, cargo_toml_content, metadata,
                   image_name, image_tag, image_full, git_revision,
                   docker_build_args, current_time, archive_name, stdout, cli_tags>>

\* main, lines 110-177: the arguments are assembled, `docker build` is started
DockerBuild ==
    /\ pc = "docker_build"
    /\ \E now \in Timestamps, spawned \in BOOLEAN :
         LET built == DockerBuildArgs(args, image_name, image_tag, image_full,
                                      git_revision, now)
         IN  /\ current_time' = now
             /\ docker_build_args' = built
             /\ stdout' = Append(stdout, MsgImage)
             /\ invoked' = Append(invoked, Invocation("docker", built, spawned))
             /\ IF ~spawned THEN Abort(ErrDockerSpawn)
                ELSE /\ pc' = "docker_build_wait"
                     /\ UNCHANGED <<error, exit_code>>
    /\ UNCHANGED <<args, fs, current_dir, project_root, cargo_toml_content, metadata,
                   image_name, image_tag, image_full, git_revision, archive_name,
                   cli_tags>>

\* main, lines 173-181: docker has ended
DockerExit ==
    /\ pc = "docker_build_wait"
    /\ \E docker_build_status \in Statuses :
         /\ invoked' = Reaped(docker_build_status)
         /\ IF ~Success(docker_build_status) THEN Abort(ErrDockerBuild)
            ELSE /\ pc' = "export"
                 /\ UNCHANGED <<error, exit_code>>
    /\ UNCHANGED <<args, fs, current_dir, project_root, cargo_toml_content, metadata,
                   image_name, image_tag, image_full, git_revision,
                   docker_build_args, current_time, archive_name, stdout, cli_tags>>

\* what the shell does with "docker save IMAGE | gzip > FILE": the word after
\* `save` is the image saved, the word after `>` the file created
WordAfter(command, word) ==
    LET w    == Words(command)
        hits == {i \in 1..Len(w) - 1 : w[i] = word}
    IN  IF hits = {} THEN None ELSE Some(w[Min(hits) + 1])

\* main, lines 184-194 and 203-204: with --export the export shell is started;
\* without it the run is complete
Export ==
    /\ pc = "export"
    /\ IF args.export
       THEN \E spawned \in BOOLEAN :
              LET archive == ArchiveName(image_name, image_tag)
                  command == ExportCommand(image_full, archive)
              IN  /\ archive_name' = archive
                  /\ stdout' = Append(stdout, MsgExporting)
                  /\ invoked' = Append(invoked,
                                       Invocation("sh", <<FlagC, command>>, spawned))
                  /\ IF ~spawned THEN Abort(ErrExportSpawn)
                     ELSE /\ pc' = "export_wait"
                          /\ UNCHANGED <<error, exit_code>>
       ELSE /\ stdout' = Append(stdout, MsgCompleted)
            /\ pc' = "done"
            /\ exit_code' = Some(0)
            /\ UNCHANGED <<error, archive_name, invoked>>
    /\ UNCHANGED <<args, fs, current_dir, project_root, cargo_toml_content, metadata,
                   image_name, image_tag, image_full, git_revision,
                   docker_build_args, current_time, cli_tags>>

\* main, lines 189-205: the shell has ended
ExportExit ==
    /\ pc = "export_wait"
    /\ \E export_status \in ExportOutcomes :
         LET target == WordAfter(Running.argv[2], <<">">>)
         IN  /\ invoked' = Reaped(export_status)
             /\ fs' = IF export_status.created /\ target # None
                      THEN [fs EXCEPT !.files =
                               @ \cup {Join(project_root[1], target[1])}]
                      ELSE fs
             /\ IF ~Success(export_status)
                THEN /\ Abort(ErrExport)
                     /\ UNCHANGED stdout
                ELSE /\ stdout' = stdout \o <<MsgExported, MsgCompleted>>
                     /\ pc' = "done"
                     /\ exit_code' = Some(0)
                     /\ UNCHANGED error
    /\ UNCHANGED <<args, current_dir, project_root, cargo_toml_content, metadata,
                   image_name, image_tag, image_full, git_revision,
                   docker_build_args, current_time, archive_name, cli_tags>>

Next ==
    \/ Start
    \/ FindProjectRoot
    \/ GetCargoMetadata
    \/ GetGitRevision
    \/ GitExit
    \/ VerifyDockerfile
    \/ CargoBuild
    \/ CargoExit
    \/ DockerBuild
    \/ DockerExit
    \/ Export
    \/ ExportExit

---------------------------------------------------------------------------
(* The runs checked: the command line and the file system of each.         *)

Dir == <<"d">>

\* the directory k levels below the root
DirAt(k) == [i \in 1..k |-> Dir]

svc  == <<"s", "v", "c">>
img  == <<"i", "m", "g">>
v010 == <<"0", ".", "1", ".", "0">>
v123 == <<"1", ".", "2", ".", "3">>
beta == <<"b", "e", "t", "a">>
edge == <<"e", "d", "g", "e">>
MIT  == <<"M", "I", "T">>
AltDockerfile == <<"a", "l", "t">>

Quote == <<"\"">>
NameLine(x)    == NameKey \o <<" ">> \o Quote \o x \o Quote
VersionLine(y) == VersionKey \o <<" ">> \o Quote \o y \o Quote
PackageLine    == <<"[", "p", "a", "c", "k", "a", "g", "e", "]">>

GoodManifest == Unlines(<<PackageLine, NameLine(svc), VersionLine(v010)>>)

\* a file system: the working directory, the files that exist, and the text
\* of each manifest (None: it cannot be read)
MkFs(cwd, manifest_dirs, text, others) ==
    [cwd   |-> cwd,
     files |-> {Join(d, CargoToml) : d \in manifest_dirs} \cup others,
     text  |-> [p \in {Join(d, CargoToml) : d \in manifest_dirs} |-> text]]

\* the command line without any option
NoArgs ==
    [export |-> FALSE, name |-> None, tag |-> None, dockerfile |-> DefaultDockerfile,
     tags |-> <<>>, application_name |-> None, title |-> None, description |-> None,
     authors |-> None, url |-> None, source |-> None, vendor |-> None,
     licenses |-> None]

\* the values of one --tags occurrence naming up to MaxTags tags
RECURSIVE JoinCommas(_)
JoinCommas(ts) ==
    IF Len(ts) = 1 THEN Head(ts) ELSE Head(ts) \o <<",">> \o JoinCommas(Tail(ts))

TagValues ==
    {<<>>} \cup {<<JoinCommas(ts)>> : ts \in SeqUpTo({beta, edge}, MaxTags) \ {<<>>}}
           \cup {<<beta, edge>>}

\* the state when main starts, for a command line a (with the values c of
\* --tags) and a file system f
InitWith(a, c, f) ==
    /\ pc = "main"
    /\ cli_tags = c
    /\ args = [a EXCEPT !.tags = ParseTags(c)]
    /\ fs = f
    /\ current_dir = <<>>
    /\ project_root = None
    /\ cargo_toml_content = None
    /\ metadata = <<>>
    /\ image_name = <<>>
    /\ image_tag = <<>>
    /\ image_full = <<>>
    /\ git_revision = <<>>
    /\ docker_build_args = <<>>
    /\ current_time = <<>>
    /\ archive_name = <<>>
    /\ invoked = <<>>
    /\ stdout = <<>>
    /\ error = None
    /\ exit_code = None

GoodFs ==
    MkFs(Some(DirAt(1)), {DirAt(1)}, Some(GoodManifest),
         {Join(DirAt(1), DefaultDockerfile)})

\* the pipeline: a project that can be built, and each way the run can end early
DriverFs ==
    {GoodFs,
     MkFs(None, {DirAt(1)}, Some(GoodManifest), {Join(DirAt(1), DefaultDockerfile)}),
     MkFs(Some(DirAt(1)), {}, None, {Join(DirAt(1), DefaultDockerfile)}),
     MkFs(Some(DirAt(1)), {DirAt(1)}, None, {Join(DirAt(1), DefaultDockerfile)}),
     MkFs(Some(DirAt(1)), {DirAt(1)}, Some(Unlines(<<NameLine(svc)>>)),
          {Join(DirAt(1), DefaultDockerfile)}),
     MkFs(Some(DirAt(1)), {DirAt(1)}, Some(GoodManifest), {})}

DriverArgs ==
    {[NoArgs EXCEPT !.export = e, !.name = n, !.tag = t, !.title = ti,
                    !.licenses = li] :
        e \in BOOLEAN, n \in {None, Some(img)}, t \in {None, Some(v123)},
        ti \in {None, Some(<<"t">>)}, li \in {None, Some(MIT)}}

Init == \E a \in DriverArgs, c \in TagValues, f \in DriverFs : InitWith(a, c, f)

Spec == Init /\ [][Next]_vars

\* the root locator and the Dockerfile check: a working directory up to MaxDepth
\* levels deep, a manifest and a Dockerfile in any of its ancestors
Ancestors(path) == {SubSeq(path, 1, k) : k \in 0..Len(path)}

TreeFsAt(cwd) ==
    {MkFs(Some(cwd), M, Some(GoodManifest),
          {Join(d, DefaultDockerfile) : d \in D} \cup {Join(d, AltDockerfile) : d \in A}) :
        M \in SUBSET Ancestors(cwd), D \in SUBSET Ancestors(cwd), A \in {{}, {cwd}}}

TreeFs == UNION {TreeFsAt(DirAt(k)) : k \in 0..MaxDepth}

TreeArgs ==
    {[NoArgs EXCEPT !.export = e, !.dockerfile = df] :
        e \in BOOLEAN, df \in {DefaultDockerfile, AltDockerfile}}

InitTree == \E a \in TreeArgs, f \in TreeFs : InitWith(a, <<>>, f)

\* the process keeps running: the locator's loop is never suspended
SpecTree == InitTree /\ [][Next]_vars /\ WF_vars(Start) /\ WF_vars(FindProjectRoot)

\* the label builder: every combination of the optional fields
LabelArgs ==
    {[export |-> e, name |-> n, tag |-> t, dockerfile |-> DefaultDockerfile,
      tags |-> <<>>, application_name |-> ap, title |-> ti, description |-> de,
      authors |-> au, url |-> ur, source |-> so, vendor |-> ve, licenses |-> li] :
        e \in BOOLEAN, n \in {None, Some(img)}, t \in {None, Some(v123)},
        ap \in {None, Some(<<"a", "p", "p">>)},
        ti \in {None, Some(<<>>), Some(<<"t">>)},
        de \in {None, Some(<<"d">>)},
        au \in {None, Some(<<"m", "e">>)},
        ur \in {None, Some(<<"u">>)},
        so \in {None, Some(<<"s">>)},
        ve \in {None, Some(<<"v">>)},
        li \in {None, Some(<<>>), Some(MIT)}}

InitLabels == \E a \in LabelArgs : InitWith(a, <<<<"b", "e", "t", "a">>>>, GoodFs)

SpecLabels == InitLabels /\ [][Next]_vars

\* the metadata reader: manifests of up to MaxLines lines
NameValues    == {svc, <<"a", "=", "b">>}
VersionValues == {v010}

ManifestLines ==
    {NameLine(x) : x \in NameValues} \cup {VersionLine(y) : y \in VersionValues}
    \cup {PackageLine,
          <<" ", " ">> \o NameLine(img),
          <<"#", " ">> \o NameLine(img),
          <<"n", "a", "m", "e", "=">> \o Quote \o img \o Quote,
          VersionKey \o <<"\r">>}

MetaFs ==
    {MkFs(Some(DirAt(1)), {DirAt(1)}, Some(Unlines(ls)),
          {Join(DirAt(1), DefaultDockerfile)}) :
        ls \in SeqUpTo(ManifestLines, MaxLines)}

InitMeta == \E e \in BOOLEAN, f \in MetaFs : InitWith([NoArgs EXCEPT !.export = e], <<>>, f)

SpecMeta == InitMeta /\ [][Next]_vars

---------------------------------------------------------------------------
(* Properties.                                                             *)

\* the positions of the invocations of a program in the run so far
Invocations(program) == {i \in 1..Len(invoked) : invoked[i].program = program}

\* the invocation ran and exited with status 0
Succeeded(i) == invoked[i].spawned /\ invoked[i].exited /\ invoked[i].code = 0

\* the invocation could not be run, or exited with a non-zero status
Failed(i) == ~invoked[i].spawned \/ (invoked[i].exited /\ invoked[i].code # 0)

\* the programs invoked so far, in order
Programs == [i \in 1..Len(invoked) |-> invoked[i].program]

Terminated == pc \in {"done", "aborted"}

\* C1: the commands run in the order project build, image build, export, each
\* started only when the one before it has ended; the image build only after a
\* project build that exited successfully, the export only with --export and
\* after an image build that exited successfully; after a step that failed the
\* run is aborted and nothing more is invoked.
C1_FixedOrder ==
    \A i \in 1..Len(invoked) :
        /\ i < Len(invoked) => (~invoked[i].spawned \/ invoked[i].exited)
        /\ invoked[i].program = "docker" =>
              \E j \in 1..(i - 1) : invoked[j].program = "cargo" /\ Succeeded(j)
        /\ invoked[i].program = "sh" =>
              /\ args.export
              /\ \E j \in 1..(i - 1) : invoked[j].program = "docker" /\ Succeeded(j)
        /\ invoked[i].program = "cargo" =>
              \A j \in 1..(i - 1) : invoked[j].program \notin {"docker", "sh"}
        /\ (invoked[i].program \in {"cargo", "docker", "sh"} /\ Failed(i)) =>
              /\ i = Len(invoked)
              /\ pc = "aborted"

C1_Witness ==
    /\ pc = "done"
    /\ Programs = <<"git", "cargo", "docker", "sh">>
    /\ \A i \in 2..4 : Succeeded(i)

\* C2, as stated: when the run has ended, every external command has been
\* invoked exactly once.
C2_ExactlyOnce ==
    Terminated =>
        \A p \in {"git", "cargo", "docker", "sh"} : Cardinality(Invocations(p)) = 1

\* C2, amended: no command is ever invoked a second time, whatever its exit
\* status; a run that ends in Done has invoked the revision lookup, the project
\* build and the image build exactly once each, and the export exactly once
\* with --export and not at all without it.
C2_NoRetries ==
    /\ \A p \in {"git", "cargo", "docker", "sh"} : Cardinality(Invocations(p)) <= 1
    /\ pc = "done" =>
          /\ \A p \in {"git", "cargo", "docker"} : Cardinality(Invocations(p)) = 1
          /\ Cardinality(Invocations("sh")) = (IF args.export THEN 1 ELSE 0)

C2_Witness ==
    /\ pc = "aborted"
    /\ Programs = <<"git", "cargo", "docker">>
    /\ Failed(1)
    /\ Failed(3)

\* the export of invocation i did what was asked: the shell ran, `docker save`
\* and `gzip` both exited with status 0
ExportSucceeded(i) ==
    /\ invoked[i].spawned /\ invoked[i].exited
    /\ \A k \in 1..Len(invoked[i].pipeline) : invoked[i].pipeline[k] = 0

\* every fatal step of the run succeeded
PipelineSucceeded ==
    /\ project_root # None
    /\ cargo_toml_content # None /\ get_cargo_metadata(cargo_toml_content).ok
    /\ \E i \in Invocations("cargo") : Succeeded(i)
    /\ \E i \in Invocations("docker") : Succeeded(i)
    /\ args.export => \E i \in Invocations("sh") : ExportSucceeded(i)

GitErrors == {ErrGitSpawn, ErrGitUtf8, ErrGit}

\* C3: a run ends in Done, with exit code 0 and the confirmation printed, if
\* and only if locating the manifest, reading it, the project build, the image
\* build and (with --export) the export all succeeded; otherwise it ends in
\* Aborted with a non-zero exit code and no confirmation, and never because of
\* the revision lookup.
C3_FatalErrors ==
    /\ pc = "done" =>
          /\ PipelineSucceeded
          /\ exit_code = Some(0)
          /\ \E i \in 1..Len(stdout) : stdout[i] = MsgCompleted
    /\ pc = "aborted" =>
          /\ ~PipelineSucceeded
          /\ exit_code # None /\ exit_code[1] # 0
          /\ \A i \in 1..Len(stdout) : stdout[i] # MsgCompleted
          /\ error # None /\ error[1] \notin GitErrors

\* C4: an export whose `docker save` or whose `gzip` exits non-zero aborts the
\* run with the export error and a non-zero exit code.
C4_ExportFailureAborts ==
    \A i \in Invocations("sh") :
        (invoked[i].exited /\ \E k \in 1..Len(invoked[i].pipeline) :
                                  invoked[i].pipeline[k] # 0) =>
            /\ pc = "aborted"
            /\ error = Some(ErrExport)
            /\ exit_code = Some(1)

\* the revision label among the arguments of the image build
RevisionLabels(argv) ==
    {argv[k + 1] : k \in {j \in 1..(Len(argv) - 1) :
        argv[j] = FlagLabel /\ StartsWith(argv[j + 1], LblRevision \o <<"=">>)}}

\* r is s without its leading and trailing whitespace
IsTrimmed(r, s) ==
    /\ r = <<>> \/ (~IsWhitespace(r[1]) /\ ~IsWhitespace(r[Len(r)]))
    /\ \E a \in 0..Len(s) :
          /\ a + Len(r) <= Len(s)
          /\ SubSeq(s, a + 1, a + Len(r)) = r
          /\ \A k \in (1..a) \cup ((a + Len(r) + 1)..Len(s)) : IsWhitespace(s[k])

\* C5: a revision lookup that cannot be run or exits non-zero yields the
\* revision "unknown" and never aborts the run: the next step is taken, the
\* image build carries the label org.opencontainers.image.revision=unknown;
\* a lookup that succeeds yields its output, trimmed, as the label's value.
C5_RevisionBestEffort ==
    /\ pc = "aborted" => error[1] \notin GitErrors
    /\ \A i \in Invocations("git") :
          /\ pc # "get_git_revision"
          /\ (~invoked[i].spawned \/ invoked[i].exited) => pc # "get_git_revision_wait"
          /\ Failed(i) => git_revision = Unknown
          /\ (Succeeded(i) /\ ~invoked[i].utf8) => git_revision = Unknown
          /\ (Succeeded(i) /\ invoked[i].utf8) =>
                IsTrimmed(git_revision, invoked[i].out)
          /\ \A d \in Invocations("docker") :
                RevisionLabels(invoked[d].argv) =
                    {LblRevision \o <<"=">> \o git_revision}

C5_Witness ==
    /\ pc = "done"
    /\ invoked[1].program = "git" /\ invoked[1].exited /\ invoked[1].code # 0
    /\ \E d \in Invocations("docker") :
          RevisionLabels(invoked[d].argv) =
              {OciPrefix \o <<"r", "e", "v", "i", "s", "i", "o", "n", "=",
                             "u", "n", "k", "n", "o", "w", "n">>}

\* the arguments that follow each occurrence of a flag, in order
Following(argv, flag) ==
    LET at == {k \in 1..(Len(argv) - 1) : argv[k] = flag}
        RECURSIVE Collect(_, _)
        Collect(S, acc) ==
            IF S = {} THEN acc
            ELSE Collect(S \ {Min(S)}, Append(acc, argv[Min(S) + 1]))
    IN  Collect(at, <<>>)

Entry(key, value) == key \o <<"=">> \o value

\* the optional fields of the command line, in the order of their labels
OptionalFields ==
    <<<<LblDescription, args.description>>, <<LblAuthors, args.authors>>,
      <<LblUrl, args.url>>, <<LblSource, args.source>>,
      <<LblVendor, args.vendor>>, <<LblLicenses, args.licenses>>,
      <<LblApplicationName, args.application_name>>>>

SuppliedFields == SelectSeq(OptionalFields, LAMBDA e : e[2] # None)

LicensesMIT == OciPrefix \o <<"l", "i", "c", "e", "n", "s", "e", "s", "=", "M", "I", "T">>

\* C6: the labels of the image build are created, version (the image tag),
\* revision, title (--title, else the image name), then one label for each
\* optional field that was given, in the fixed order, and none for a field
\* that was omitted: 4 labels without optional fields, exactly one
\* org.opencontainers.image.licenses=MIT with --licenses MIT.
C6_LabelSequence ==
    \A d \in Invocations("docker") :
        LET labels == Following(invoked[d].argv, FlagLabel)
        IN  /\ labels =
                <<Entry(LblCreated, current_time),
                  Entry(LblVersion, IF args.tag # None THEN args.tag[1]
                                                       ELSE metadata[2]),
                  Entry(LblRevision, git_revision),
                  Entry(LblTitle, IF args.title # None THEN args.title[1]
                                  ELSE IF args.name # None THEN args.name[1]
                                  ELSE metadata[1])>>
                \o [i \in 1..Len(SuppliedFields) |->
                        Entry(SuppliedFields[i][1], SuppliedFields[i][2][1])]
            /\ SuppliedFields = <<>> => Len(labels) = 4
            /\ args.licenses = Some(MIT) =>
                  Cardinality({i \in 1..Len(labels) : labels[i] = LicensesMIT}) = 1
            /\ args.licenses = None =>
                  \A i \in 1..Len(labels) :
                      ~StartsWith(labels[i], LblLicenses \o <<"=">>)

C6_Witness ==
    /\ args.licenses = Some(MIT)
    /\ args.description = None /\ args.vendor = None /\ args.authors # None
    /\ \E d \in Invocations("docker") :
          LET labels == Following(invoked[d].argv, FlagLabel)
          IN  Len(labels) = 6 /\ labels[6] = LicensesMIT

\* the name and the tag of the image: the options, else the manifest's
RunName == IF args.name # None THEN args.name[1] ELSE metadata[1]
RunTag  == IF args.tag # None THEN args.tag[1] ELSE metadata[2]

\* the file name of a path
FileName(path) == path[Len(path)]

\* C7: the image build is given the tag name:tag and one tag name:extra for
\* each --tags entry, in the order given; the export saves the image name:tag
\* into the file name-tag.tgz of the project root, the only file a run creates.
C7_ImageReferences ==
    /\ \A d \in Invocations("docker") :
          LET tags == Following(invoked[d].argv, FlagT)
          IN  /\ tags = <<RunName \o <<":">> \o RunTag>>
                        \o [i \in 1..Len(args.tags) |->
                                RunName \o <<":">> \o args.tags[i]]
              /\ (/\ cli_tags = <<<<"b", "e", "t", "a", ",", "e", "d", "g", "e">>>>
                  /\ args.tag = Some(<<"1", ".", "2", ".", "3">>)
                  /\ args.name = None) =>
                    tags = <<<<"s", "v", "c", ":", "1", ".", "2", ".", "3">>,
                             <<"s", "v", "c", ":", "b", "e", "t", "a">>,
                             <<"s", "v", "c", ":", "e", "d", "g", "e">>>>
    /\ \A s \in Invocations("sh") :
          LET command == invoked[s].argv[2]
              archive == RunName \o <<"-">> \o RunTag \o <<".", "t", "g", "z">>
          IN  /\ WordAfter(command, <<"s", "a", "v", "e">>) =
                    Some(RunName \o <<":">> \o RunTag)
              /\ WordAfter(command, <<">">>) = Some(archive)
              /\ Succeeded(s) => Join(project_root[1], archive) \in fs.files
              /\ image_full = <<"s", "v", "c", ":", "1", ".", "2", ".", "3">> =>
                    archive = <<"s", "v", "c", "-", "1", ".", "2", ".", "3",
                                ".", "t", "g", "z">>
    /\ \A f \in fs.files :
          \/ FileName(f) \in {CargoToml, DefaultDockerfile}
          \/ /\ Invocations("sh") # {}
             /\ f = Join(project_root[1],
                         RunName \o <<"-">> \o RunTag \o <<".", "t", "g", "z">>)

C7_Witness ==
    /\ pc = "done"
    /\ cli_tags = <<<<"b", "e", "t", "a", ",", "e", "d", "g", "e">>>>
    /\ image_full = <<"s", "v", "c", ":", "1", ".", "2", ".", "3">>
    /\ Join(project_root[1],
            <<"s", "v", "c", "-", "1", ".", "2", ".", "3", ".", "t", "g", "z">>)
          \in fs.files

\* line i of the text is  key "value"  and no earlier line, trimmed, starts
\* with the key
FirstWellFormed(ls, i, key, value) ==
    /\ ls[i] = key \o <<" ", "\"">> \o value \o <<"\"">>
    /\ \A k \in 1..(i - 1) : ~StartsWith(Trim(ls[k]), key)

\* C8: from a manifest whose first `name =` line is  name = "x"  and whose
\* first `version =` line is  version = "y"  the reader returns exactly (x, y),
\* whatever the other lines are.
C8_MetadataExact ==
    cargo_toml_content # None =>
        LET ls == Lines(cargo_toml_content[1])
        IN  \A x \in NameValues, y \in VersionValues :
                (\E i, j \in 1..Len(ls) :
                    /\ FirstWellFormed(ls, i, <<"n", "a", "m", "e", " ", "=">>, x)
                    /\ FirstWellFormed(ls, j, <<"v", "e", "r", "s", "i", "o", "n",
                                                " ", "=">>, y))
                => /\ pc # "aborted" \/ Invocations("git") # {}
                   /\ metadata = <<x, y>>

\* the ancestors of the working directory (itself included) that hold a manifest
Holders == {d \in Ancestors(fs.cwd[1]) : Join(d, CargoToml) \in fs.files}

\* the locator's result, once it has returned
Located ==
    IF Holders = {}
    THEN /\ pc = "aborted"
         /\ error = Some(ErrNoCargoToml)
         /\ project_root = None
    ELSE \E d \in Holders :
            /\ project_root = Some(d)
            /\ \A e \in Holders : Len(e) <= Len(d)

\* C9: invoked k >= 0 levels below the directory that holds the manifest (the
\* nearest one, if several ancestors hold one) the locator returns that
\* directory; when no ancestor up to the root holds a manifest it fails with
\* the NotFound error; either way the walk ends.
C9_RootLocator ==
    /\ [](pc \notin {"main", "find_project_root"} => Located)
    /\ [](pc = "find_project_root" =>
            /\ current_dir \in Ancestors(fs.cwd[1])
            /\ \A d \in Holders : Len(d) <= Len(current_dir))
    /\ <>(pc \notin {"main", "find_project_root"})

C9_Witness ==
    /\ Len(fs.cwd[1]) = 2
    /\ Holders = {<<<<"d">>>>}
    /\ project_root = Some(<<<<"d">>>>)
    /\ pc = "get_cargo_metadata"

\* C10: a run whose Dockerfile path, resolved against the project root, names
\* no file aborts with a non-zero exit after the revision lookup and invokes
\* neither build nor the export; the project build is invoked only when the
\* file exists.
C10_DockerfilePreflight ==
    /\ Invocations("cargo") # {} =>
          /\ project_root # None
          /\ Join(project_root[1], args.dockerfile) \in fs.files
    /\ (/\ pc \notin {"main", "find_project_root", "get_cargo_metadata",
                      "get_git_revision", "get_git_revision_wait",
                      "verify_dockerfile"}
        /\ project_root # None
        /\ Join(project_root[1], args.dockerfile) \notin fs.files
        /\ error # Some(ErrReadCargoToml)) =>
          /\ pc = "aborted"
          /\ error = Some(ErrNoDockerfile)
          /\ exit_code # None /\ exit_code[1] # 0
          /\ Programs = <<"git">>

C10_Witness ==
    /\ pc = "aborted"
    /\ error = Some(ErrNoDockerfile)
    /\ project_root # Some(fs.cwd[1])
    /\ Join(fs.cwd[1], args.dockerfile) \in fs.files
    /\ Programs = <<"git">>

====
